---- MODULE Spec2Model ----
(***************************************************************************)
(* Model of the chess server of NamesMark/chess-rs (server/src/main.rs,    *)
(* server/src/chess_game.rs): the session registry, the connection         *)
(* handler and the command / move dispatcher.                              *)
(*                                                                         *)
(* One action per handler.  A dispatch runs from the decoded message to    *)
(* the handler's return; a Move is two steps, process_move and the         *)
(* broadcast that follows it, because no lock is held from the one to the  *)
(* other.  Every connection's write_task drains its channel                *)
(* between two dispatches, so chan[c] holds, in order, what the latest     *)
(* step enqueued on the channel of connection c.  A connection and its     *)
(* channel are named by the peer address; an address is used again only    *)
(* once the handler of its previous connection has returned.               *)
(***************************************************************************)
EXTENDS Integers, Sequences, FiniteSets, TLC

(* ------------------------------ bounds --------------------------------- *)
NumAddr == 2
MaxGames == 1
MaxPly == 2
MaxFileLen == 6

(* ------------------------------ options -------------------------------- *)
None == <<>>
Some(x) == <<x>>

(* HashMap as a function on the set of its keys *)
EmptyMap == <<>>
Get(m, k) == IF k \in DOMAIN m THEN Some(m[k]) ELSE None
Insert(m, k, v) == [x \in DOMAIN m \cup {k} |-> IF x = k THEN v ELSE m[x]]
Remove(m, k) == [x \in DOMAIN m \ {k} |-> m[x]]

(* ------------------------------ inputs --------------------------------- *)
Addr == 1..NumAddr

(* usernames are strings of characters; the second one carries a newline *)
alice == <<"a">>
mallory == <<"a", "\n", "b">>
Names == {alice, mallory}

(* format!("{}", username) *)
RECURSIVE Show(_)
Show(s) == IF s = <<>> THEN "" ELSE Head(s) \o Show(Tail(s))

(* ------------------------------ messages ------------------------------- *)
Log(s) == [type |-> "Log", body |-> s]
Error(s) == [type |-> "Error", body |-> s]
Text(s) == [type |-> "Text", body |-> s]
BoardMsg(s) == [type |-> "Board", body |-> s]

(* ------------------------------ user store ----------------------------- *)
(* str::lines(): split at "\n", a trailing "\r" of a line is dropped, a    *)
(* last line without "\n" counts, nothing follows the final "\n".          *)
StripCr(l) == IF l # <<>> /\ l[Len(l)] = "\r" THEN SubSeq(l, 1, Len(l) - 1) ELSE l

RECURSIVE LinesFrom(_, _)
LinesFrom(rest, cur) ==
    IF rest = <<>> THEN (IF cur = <<>> THEN {} ELSE {cur})
    ELSE IF Head(rest) = "\n" THEN {StripCr(cur)} \cup LinesFrom(Tail(rest), <<>>)
    ELSE LinesFrom(Tail(rest), Append(cur, Head(rest)))

Lines(contents) == LinesFrom(contents, <<>>)

(* authenticate: file_contents.lines().any(|line| line == username) *)
authenticate(contents, username) == username \in Lines(contents)

(* register: append format!("{}\n", username) *)
register(contents, username) == contents \o username \o <<"\n">>

(* ------------------------------ rule engine ---------------------------- *)
(* The chess crate, seen through the calls the server makes.  A board is   *)
(* the number of half-moves played and the kind of position reached:       *)
(* "quiet", "check" (side to move in check, has a legal move), "mate"      *)
(* (in check, no legal move).                                              *)
White == "White"
Black == "Black"
Not(color) == IF color = White THEN Black ELSE White

BoardDefault == [ply |-> 0, kind |-> "quiet"]

(* ChessMove::from_str: the strings that parse, and the position each      *)
(* leads to; "e2e5" parses and is never legal, "zz" does not parse.        *)
Moves == {"e2e4", "Qh5+", "Qf7#", "e2e5", "zz"}
Parses(move_str) == move_str \in {"e2e4", "Qh5+", "Qf7#", "e2e5"}
KindAfter(move_str) ==
    CASE move_str = "e2e4" -> "quiet"
      [] move_str = "Qh5+" -> "check"
      [] move_str = "Qf7#" -> "mate"
      [] OTHER -> "none"

(* MoveGen::new_legal(&board).count() == 0 *)
NoLegalMoves(board) == board.kind = "mate"
(* board.legal(mov) *)
Legal(board, move_str) == ~NoLegalMoves(board) /\ KindAfter(move_str) # "none"
(* board.make_move_new(mov) *)
MakeMoveNew(board, move_str) == [ply |-> board.ply + 1, kind |-> KindAfter(move_str)]
(* board.side_to_move() *)
SideToMove(board) == IF board.ply % 2 = 0 THEN White ELSE Black
(* board.checkers().popcnt() > 0 *)
InCheck(board) == board.kind \in {"check", "mate"}
(* board.to_string(): the FEN text of the position *)
Fen(board) == "fen " \o ToString(board.ply) \o " " \o board.kind \o " " \o SideToMove(board)

(* ------------------------------ Game ----------------------------------- *)
Pending == "Pending"
InProgress == "InProgress"
Finished == "Finished"
Cancelled == "Cancelled"

(* Game::make_move as it would be had it left current_turn alone *)
make_move_keeps_turn(game, move_str) ==
    IF ~Parses(move_str) THEN [ok |-> FALSE, err |-> "Couldn't parse move.", game |-> game]
    ELSE IF Legal(game.board, move_str)
    THEN [ok |-> TRUE, err |-> "",
          game |-> [game EXCEPT !.board = MakeMoveNew(game.board, move_str)]]
    ELSE [ok |-> FALSE, err |-> "Invalid move.", game |-> game]

(* Game::make_move: Ok with the new game, or Err with the game untouched *)
make_move(game, move_str) ==
    IF ~Parses(move_str) THEN [ok |-> FALSE, err |-> "Couldn't parse move.", game |-> game]
    ELSE IF Legal(game.board, move_str)
    THEN [ok |-> TRUE, err |-> "",
          game |-> [game EXCEPT !.board = MakeMoveNew(game.board, move_str),
                                !.current_turn = Not(game.current_turn)]]
    ELSE [ok |-> FALSE, err |-> "Invalid move.", game |-> game]

(* Game::concede *)
concede(game, player) ==
    IF game.white = Some(player)
    THEN [ok |-> TRUE, game |-> [game EXCEPT !.result = Some("WhiteResigns"), !.status = Finished]]
    ELSE IF game.black = Some(player)
    THEN [ok |-> TRUE, game |-> [game EXCEPT !.result = Some("BlackResigns"), !.status = Finished]]
    ELSE [ok |-> FALSE, game |-> game]

(* Game::is_check *)
is_check(game) == InCheck(game.board)

(* Game::is_mate: the answer, and the game as the call leaves it *)
is_mate(game) ==
    IF NoLegalMoves(game.board)
    THEN [mate |-> TRUE,
          game |-> [game EXCEPT !.result = IF game.current_turn = White
                                           THEN Some("BlackCheckmates")
                                           ELSE Some("WhiteCheckmates"),
                                !.status = Finished]]
    ELSE [mate |-> FALSE, game |-> game]

(* the Game built by assign_to_game when no seat is open *)
NewGame(username) ==
    [board |-> BoardDefault, current_turn |-> White, white |-> Some(username),
     black |-> None, status |-> Pending, result |-> None]

(* format!("{:?}", game.result) *)
DebugResult(result) == IF result = None THEN "None" ELSE "Some(" \o result[1] \o ")"

(* ------------------------------ state ---------------------------------- *)
VARIABLES
    user_file,              \* contents of database/usernames.txt
    user_connections,       \* username -> channel (the connection that owns it)
    anon_user_connections,  \* peer address -> channel
    addr_to_user,           \* peer address -> username
    games,                  \* game id -> Game
    finished_games,         \* game id -> Game
    user_to_game,           \* username -> game id
    last_game_id,           \* AtomicU32
    conns,                  \* peer address -> the two tasks of its connection
    games_lock,             \* the task that holds the games mutex for ever, if any
    stalled,                \* channels with all 100 slots taken and a writer that does not drain
    held,                   \* mutexes held by a task that waits for a slot or for a mutex
    chan,                   \* per channel: messages enqueued by the latest step
    last                    \* the latest step: what was dispatched and how it returned

vars == <<user_file, user_connections, anon_user_connections, addr_to_user, games,
          finished_games, user_to_game, last_game_id, conns, games_lock, stalled, held,
          chan, last>>

slow == <<stalled, held>>
registry == <<user_connections, anon_user_connections, addr_to_user>>
gamestate == <<games, finished_games, user_to_game, last_game_id>>

NoChan == [c \in Addr |-> <<>>]
NoConn == [reader |-> "none", rx_open |-> FALSE]
Step(op, c, name, res, path) ==
    [op |-> op, conn |-> c, name |-> name, res |-> res, path |-> path]

Init ==
    /\ user_file = <<>>
    /\ user_connections = EmptyMap
    /\ anon_user_connections = EmptyMap
    /\ addr_to_user = EmptyMap
    /\ games = EmptyMap
    /\ finished_games = EmptyMap
    /\ user_to_game = EmptyMap
    /\ last_game_id = 0
    /\ conns = [a \in Addr |-> NoConn]
    /\ games_lock = None
    /\ stalled = {}
    /\ held = {}
    /\ chan = NoChan
    /\ last = Step("start", 0, None, "Ok", "")

(* ------------------------------ channels ------------------------------- *)
To(c, msg) == [to |-> c, msg |-> msg]

(* Sender::send fails once the receiving write_task is gone *)
RxOpen(c) == conns[c].rx_open

(* a run of sends joined by `?`: it stops at the first one that fails *)
FirstFailure(sends) ==
    IF \E i \in 1..Len(sends) : ~RxOpen(sends[i].to)
    THEN CHOOSE i \in 1..Len(sends) :
            /\ ~RxOpen(sends[i].to)
            /\ \A j \in 1..(i - 1) : RxOpen(sends[j].to)
    ELSE Len(sends) + 1
TrySends(sends) ==
    [ok |-> FirstFailure(sends) > Len(sends),
     sent |-> SubSeq(sends, 1, FirstFailure(sends) - 1)]

(* sends whose result is discarded (`let _ =`): the failing ones are lost *)
LossySends(sends) == SelectSeq(sends, LAMBDA s : RxOpen(s.to))

RECURSIVE MsgsTo(_, _)
MsgsTo(sent, c) ==
    IF sent = <<>> THEN <<>>
    ELSE IF Head(sent).to = c THEN <<Head(sent).msg>> \o MsgsTo(Tail(sent), c)
    ELSE MsgsTo(Tail(sent), c)

(* the channels after the step enqueued `sent` *)
Enqueued(sent) == [c \in Addr |-> MsgsTo(sent, c)]

(* ------------------------------ lookups -------------------------------- *)
(* identify_user_by_addr *)
identify_user_by_addr(socket_addr) == Get(addr_to_user, socket_addr)

Running(c) == conns[c].reader = "running"

(* a task that asks for the games mutex while another holds it for ever *)
GamesLockStuck == games_lock # None

(* ------------------------------ broadcast ------------------------------ *)
(* send_game_state as it would be had it sent the turn Log before the      *)
(* two Boards                                                              *)
send_game_state_turn_first(game) ==
    IF game.white = None \/ game.black = None
    THEN [ok |-> FALSE, sent |-> <<>>, game |-> game]
    ELSE IF game.white[1] \notin DOMAIN user_connections
            \/ game.black[1] \notin DOMAIN user_connections
    THEN [ok |-> FALSE, sent |-> <<>>, game |-> game]
    ELSE
      LET white_player == game.white[1]
          black_player == game.black[1]
          white_sender == user_connections[white_player]
          black_sender == user_connections[black_player]
          board_state == Fen(game.board)
          head == <<IF game.current_turn = White
                    THEN To(white_sender,
                            Log("Your turn, white player " \o Show(white_player) \o "!"))
                    ELSE To(black_sender,
                            Log("Your turn, black player " \o Show(black_player) \o "!")),
                    To(white_sender, BoardMsg(board_state)),
                    To(black_sender, BoardMsg(board_state))>>
          check == IF is_check(game)
                   THEN <<To(white_sender, Log("Check!")), To(black_sender, Log("Check!"))>>
                   ELSE <<>>
          m == is_mate(game)
          mate == IF m.mate
                  THEN <<To(white_sender, Log("Mate!")), To(black_sender, Log("Mate!"))>>
                  ELSE <<>>
          fin == "Game is finished. Result is: " \o DebugResult(m.game.result)
          tail == <<To(white_sender, Log(fin)), To(black_sender, Log(fin))>>
      IN IF game.result = None
         THEN [ok |-> TrySends(head \o check).ok,
               sent |-> TrySends(head \o check).sent,
               game |-> game]
         ELSE [ok |-> TrySends(head \o mate \o tail).ok,
               sent |-> TrySends(head \o mate \o tail).sent,
               game |-> IF TrySends(head).ok THEN m.game ELSE game]

(* send_game_state: whether it returned Ok, what it enqueued, and the game *)
(* as it leaves it (is_mate writes result and status)                      *)
send_game_state(game) ==
    IF game.white = None \/ game.black = None
    THEN [ok |-> FALSE, sent |-> <<>>, game |-> game]
    ELSE IF game.white[1] \notin DOMAIN user_connections
            \/ game.black[1] \notin DOMAIN user_connections
    THEN [ok |-> FALSE, sent |-> <<>>, game |-> game]
    ELSE
      LET white_player == game.white[1]
          black_player == game.black[1]
          white_sender == user_connections[white_player]
          black_sender == user_connections[black_player]
          board_state == Fen(game.board)
          head == <<To(white_sender, BoardMsg(board_state)),
                    To(black_sender, BoardMsg(board_state)),
                    IF game.current_turn = White
                    THEN To(white_sender,
                            Log("Your turn, white player " \o Show(white_player) \o "!"))
                    ELSE To(black_sender,
                            Log("Your turn, black player " \o Show(black_player) \o "!"))>>
          check == IF is_check(game)
                   THEN <<To(white_sender, Log("Check!")), To(black_sender, Log("Check!"))>>
                   ELSE <<>>
          m == is_mate(game)
          mate == IF m.mate
                  THEN <<To(white_sender, Log("Mate!")), To(black_sender, Log("Mate!"))>>
                  ELSE <<>>
          fin == "Game is finished. Result is: " \o DebugResult(m.game.result)
          tail == <<To(white_sender, Log(fin)), To(black_sender, Log(fin))>>
      IN IF game.result = None
         THEN [ok |-> TrySends(head \o check).ok,
               sent |-> TrySends(head \o check).sent,
               game |-> game]
         ELSE [ok |-> TrySends(head \o mate \o tail).ok,
               sent |-> TrySends(head \o mate \o tail).sent,
               game |-> IF TrySends(head).ok THEN m.game ELSE game]

(* ------------------------------ connection handler --------------------- *)
Bye == Log("You have been disconnected. Bye!")

(* write_task: `while let Some(message) = rx.recv().await` ends when no    *)
(* map holds a Sender of the channel any more                              *)
SenderHeld(anon, users, c) ==
    \/ \E a \in DOMAIN anon : anon[a] = c
    \/ \E n \in DOMAIN users : users[n] = c
CloseOrphans(cs, anon, users) ==
    [c \in Addr |-> IF cs[c].rx_open /\ ~SenderHeld(anon, users, c)
                    THEN [cs[c] EXCEPT !.rx_open = FALSE] ELSE cs[c]]

(* handle_client up to the spawn of the two tasks *)
handle_client(socket_addr) ==
    /\ conns[socket_addr] = NoConn
    /\ conns' = [conns EXCEPT ![socket_addr] = [reader |-> "running", rx_open |-> TRUE]]
    /\ anon_user_connections' = Insert(anon_user_connections, socket_addr, socket_addr)
    /\ chan' = NoChan
    /\ last' = Step("accept", socket_addr, None, "Ok", "")
    /\ UNCHANGED <<user_file, user_connections, addr_to_user, gamestate, games_lock, slow>>

(* listen_to_client_messages: listen_to_messages returns Err (the peer     *)
(* closed the stream), the loop breaks                                     *)
read_task_end(c) ==
    /\ Running(c)
    /\ conns' = [conns EXCEPT ![c].reader = "ended"]
    /\ chan' = NoChan
    /\ last' = Step("eof", c, None, "Ok", "")
    /\ UNCHANGED <<user_file, registry, gamestate, games_lock, slow>>

(* write_task: a write to the stream of a peer that has gone fails *)
write_task_end(c) ==
    /\ conns[c].rx_open
    /\ conns[c].reader = "ended"
    /\ chan[c] # <<>>
    /\ conns' = [conns EXCEPT ![c].rx_open = FALSE]
    /\ chan' = NoChan
    /\ last' = Step("write_end", c, None, "Ok", "")
    /\ UNCHANGED <<user_file, registry, gamestate, games_lock, slow>>

(* try_join! returned: both tasks ended, or the read task panicked *)
Joined(c) ==
    \/ conns[c].reader = "panicked"
    \/ conns[c].reader = "ended" /\ ~conns[c].rx_open

(* handle_client after try_join!: the two cleanup blocks *)
cleanup(c) ==
    LET username == identify_user_by_addr(c)
        bye_anon == IF c \in DOMAIN anon_user_connections
                    THEN <<To(anon_user_connections[c], Bye)>> ELSE <<>>
        bye_user == IF username # None /\ username[1] \in DOMAIN user_connections
                    THEN <<To(user_connections[username[1]], Bye)>> ELSE <<>>
    IN
    /\ Joined(c)
    /\ anon_user_connections' = Remove(anon_user_connections, c)
    /\ user_connections' = IF username # None
                           THEN Remove(user_connections, username[1])
                           ELSE user_connections
    /\ conns' = CloseOrphans([conns EXCEPT ![c] = NoConn],
                             anon_user_connections', user_connections')
    /\ chan' = Enqueued(LossySends(bye_anon \o bye_user))
    /\ last' = Step("cleanup", c, username, "Ok", "")
    /\ UNCHANGED <<user_file, addr_to_user, gamestate, games_lock, slow>>

(* ------------------------------ LogIn ---------------------------------- *)
WelcomeBack(username) ==
    Log("Authenticated successfully. Welcome back, " \o Show(username) \o ".")
Welcome(username) ==
    Log("Registered a new user. Welcome, " \o Show(username)
        \o "! Hope you are going to enjoy our chess server. Use /play to start your first game!")

(* promote as it would be had it read the sender with get() and left it in *)
(* the anon map                                                            *)
promote_keeps_anon(socket_addr, username, greeting) ==
    LET sender == Get(anon_user_connections, socket_addr)
    IN IF sender = None
       THEN [res |-> "Err", path |-> "sender_not_found", sent |-> <<>>,
             anon |-> anon_user_connections,
             users |-> user_connections,
             addr_user |-> addr_to_user]
       ELSE [res |-> IF TrySends(<<To(sender[1], greeting)>>).ok THEN "Ok" ELSE "Err",
             path |-> "promoted",
             sent |-> TrySends(<<To(sender[1], greeting)>>).sent,
             anon |-> anon_user_connections,
             users |-> Insert(user_connections, username, sender[1]),
             addr_user |-> Insert(addr_to_user, socket_addr, username)]

(* the block both LogIn branches share: take the sender out of the anon    *)
(* map, insert it under the name, bind the address, greet                  *)
promote(socket_addr, username, greeting) ==
    LET sender == Get(anon_user_connections, socket_addr)
    IN IF sender = None
       THEN [res |-> "Err", path |-> "sender_not_found", sent |-> <<>>,
             anon |-> anon_user_connections,
             users |-> user_connections,
             addr_user |-> addr_to_user]
       ELSE [res |-> IF TrySends(<<To(sender[1], greeting)>>).ok THEN "Ok" ELSE "Err",
             path |-> "promoted",
             sent |-> TrySends(<<To(sender[1], greeting)>>).sent,
             anon |-> Remove(anon_user_connections, socket_addr),
             users |-> Insert(user_connections, username, sender[1]),
             addr_user |-> Insert(addr_to_user, socket_addr, username)]

(* process_command, Command::LogIn *)
LogIn(c, username) ==
    LET socket_addr == c
        known == authenticate(user_file, username)
        p == promote(socket_addr, username,
                     IF known THEN WelcomeBack(username) ELSE Welcome(username))
    IN
    /\ Running(c)
    /\ ~known => Len(user_file) + Len(username) + 1 <= MaxFileLen
    /\ user_file' = IF known THEN user_file ELSE register(user_file, username)
    /\ anon_user_connections' = p.anon
    /\ user_connections' = p.users
    /\ addr_to_user' = p.addr_user
    /\ chan' = Enqueued(p.sent)
    /\ conns' = CloseOrphans(conns, p.anon, p.users)
    /\ last' = Step("LogIn", c, Some(username), p.res, p.path)
    /\ UNCHANGED <<gamestate, games_lock, slow>>

(* ------------------------------ Play ----------------------------------- *)
InGame == Log("You're in a game now!")

(* the seat scan of assign_to_game visits the games in HashMap order and   *)
(* stops at the first one with a seat free: any of them can be that one    *)
OpenSeat(game) == game.white = None \/ game.black = None
OpenGames == {g \in DOMAIN games : OpenSeat(games[g])}

(* start_game as it would be had it left the status as it found it *)
start_game_keeps_status(game) ==
    IF game.white = None \/ game.black = None
    THEN [ok |-> FALSE, sent |-> <<>>, game |-> game]
    ELSE send_game_state(game)

(* start_game *)
start_game(game) ==
    IF game.white = None \/ game.black = None
    THEN [ok |-> FALSE, sent |-> <<>>, game |-> game]
    ELSE send_game_state([game EXCEPT !.status = InProgress])

(* ServerState::get_new_game_id: fetch_add(1) returns the old value; the   *)
(* u32 wrap is out of reach of MaxGames                                    *)
get_new_game_id == [id |-> last_game_id, next |-> last_game_id + 1]

(* assign_to_game once the scan has stopped at game `pick` (-1: at none) *)
assign_to_game(username, pick) ==
    LET seated == IF pick = -1 THEN NewGame(username)
                  ELSE IF games[pick].white = None
                  THEN [games[pick] EXCEPT !.white = Some(username)]
                  ELSE [games[pick] EXCEPT !.black = Some(username)]
        starts == pick # -1 /\ games[pick].white # None
        st == start_game(seated)
        assigned_game_id == IF pick = -1 THEN get_new_game_id.id ELSE pick
        inform == IF username \in DOMAIN user_connections
                  THEN TrySends(<<To(user_connections[username], InGame)>>)
                  ELSE [ok |-> FALSE, sent |-> <<>>]
    IN IF starts /\ ~st.ok
       THEN [res |-> "Err", path |-> "start_failed", sent |-> st.sent,
             games |-> Insert(games, pick, st.game),
             user_to_game |-> user_to_game,
             last_game_id |-> last_game_id]
       ELSE [res |-> IF inform.ok THEN "Ok" ELSE "Err",
             path |-> IF pick = -1 THEN "created" ELSE IF starts THEN "started" ELSE "seated",
             sent |-> (IF starts THEN st.sent ELSE <<>>) \o inform.sent,
             games |-> Insert(games, assigned_game_id, IF starts THEN st.game ELSE seated),
             user_to_game |-> Insert(user_to_game, username, assigned_game_id),
             last_game_id |-> IF pick = -1 THEN get_new_game_id.next ELSE last_game_id]

AlreadyPlaying == Error("You cannot start a new game until this one is finished!")
AnonCannotPlay == Error("Anonymous users cannot start games. Please use /log in.")

(* process_command, Command::Play *)
Play(c, pick) ==
    LET socket_addr == c
        username == identify_user_by_addr(socket_addr)
        r == assign_to_game(username[1], pick)
        refuse == IF username[1] \in DOMAIN user_connections
                  THEN TrySends(<<To(user_connections[username[1]], AlreadyPlaying)>>).sent
                  ELSE <<>>
        anon_err == IF socket_addr \in DOMAIN anon_user_connections
                    THEN LossySends(<<To(anon_user_connections[socket_addr], AnonCannotPlay)>>)
                    ELSE <<>>
    IN
    /\ Running(c)
    /\ IF username = None
       THEN /\ pick = -1
            /\ anon_user_connections' = Remove(anon_user_connections, socket_addr)
            /\ chan' = Enqueued(anon_err)
            /\ conns' = CloseOrphans(conns, anon_user_connections', user_connections)
            /\ last' = Step("Play", c, None, "Err", "anonymous")
            /\ UNCHANGED <<user_connections, addr_to_user, gamestate, games_lock, slow>>
       ELSE IF username[1] \in DOMAIN user_to_game
       THEN /\ pick = -1
            /\ chan' = Enqueued(refuse)
            /\ last' = Step("Play", c, username, "Err", "already_in_game")
            /\ UNCHANGED <<registry, gamestate, conns, games_lock, slow>>
       ELSE IF GamesLockStuck
       THEN /\ pick = -1
            /\ conns' = [conns EXCEPT ![c].reader = "hung"]
            /\ chan' = NoChan
            /\ last' = Step("Play", c, username, "Hung", "games_lock")
            /\ UNCHANGED <<registry, gamestate, games_lock, slow>>
       ELSE /\ IF OpenGames = {} THEN pick = -1 /\ last_game_id < MaxGames
                                 ELSE pick \in OpenGames
            /\ games' = r.games
            /\ user_to_game' = r.user_to_game
            /\ last_game_id' = r.last_game_id
            /\ chan' = Enqueued(r.sent)
            /\ last' = Step("Play", c, username, r.res, r.path)
            /\ UNCHANGED <<registry, finished_games, conns, games_lock, slow>>
    /\ UNCHANGED user_file

(* ------------------------------ Concede -------------------------------- *)
(* a reader task that waits for the games mutex held for ever by another   *)
Hang(op, c, username) ==
    /\ conns' = [conns EXCEPT ![c].reader = "hung"]
    /\ chan' = NoChan
    /\ last' = Step(op, c, username, "Hung", "games_lock")
    /\ UNCHANGED <<user_file, registry, gamestate, games_lock, slow>>

(* a dispatch that returns Err and has changed nothing *)
Reject(op, c, username, path, sent) ==
    /\ chan' = Enqueued(sent)
    /\ last' = Step(op, c, username, "Err", path)
    /\ UNCHANGED <<user_file, registry, gamestate, conns, games_lock, slow>>

(* the two user_to_game.remove calls that follow game.concede *)
RemovePlayers(map, game) ==
    LET m1 == IF game.white # None THEN Remove(map, game.white[1]) ELSE map
    IN IF game.black # None THEN Remove(m1, game.black[1]) ELSE m1

(* process_command, Command::Concede *)
Concede(c) ==
    LET socket_addr == c
        username == identify_user_by_addr(socket_addr)
        game_id == user_to_game[username[1]]
        conceded == concede(games[game_id], username[1]).game
        sgs == send_game_state(conceded)
    IN
    /\ Running(c)
    /\ IF username = None
       THEN Reject("Concede", c, None, "anonymous", <<>>)
       ELSE IF username[1] \notin DOMAIN user_to_game
       THEN Reject("Concede", c, username, "not_in_game", <<>>)
       ELSE IF GamesLockStuck
       THEN Hang("Concede", c, username)
       ELSE IF game_id \notin DOMAIN games
       THEN Reject("Concede", c, username, "game_not_found", <<>>)
       ELSE /\ games' = Insert(games, game_id, sgs.game)
            /\ user_to_game' = RemovePlayers(user_to_game, conceded)
            /\ chan' = Enqueued(sgs.sent)
            /\ last' = Step("Concede", c, username, IF sgs.ok THEN "Ok" ELSE "Err",
                            "conceded")
            /\ UNCHANGED <<user_file, registry, finished_games, last_game_id, conns,
                           games_lock, slow>>

(* ------------------------------ Move ----------------------------------- *)
NotStarted ==
    Error("The game has not started yet. We are waiting for a second player to join.")
NotYourTurn == Error("It's not your turn.")
NotInGame == Error("You are not in a game. Start a game using /play.")

(* the `if let Some(sender) = user_connections.get(username) { send ? }` of *)
(* process_move                                                            *)
Reply(username, msg) ==
    IF username \in DOMAIN user_connections
    THEN TrySends(<<To(user_connections[username], msg)>>).sent
    ELSE <<>>

(* the turn test of process_move *)
HasTurn(game, username) ==
    \/ game.current_turn = Black /\ game.black = Some(username)
    \/ game.current_turn = White /\ game.white = Some(username)

(* process_message, Message::Move, up to the return of process_move.  The  *)
(* games guard and the game guard are dropped there; the broadcast is a    *)
(* later step of the same task (MoveBroadcast), and the tasks of the other *)
(* connections run in between.                                             *)
Move(c, user_move) ==
    LET socket_addr == c
        username == identify_user_by_addr(socket_addr)
        game_id == user_to_game[username[1]]
        game == games[game_id]
        mm == make_move(game, user_move)
        game_is_finished == mm.game.result # None
    IN
    /\ Running(c)
    /\ IF username = None
       THEN Reject("Move", c, None, "anonymous", <<>>)
       ELSE IF username[1] \notin DOMAIN user_to_game
       THEN Reject("Move", c, username, "not_in_game", <<>>)
       ELSE IF GamesLockStuck
       THEN Hang("Move", c, username)
       ELSE IF game_id \notin DOMAIN games
       THEN Reject("Move", c, username, "game_not_found",
                   Reply(username[1], NotInGame))
       ELSE IF game.white = None \/ game.black = None
       THEN Reject("Move", c, username, "not_started",
                   Reply(username[1], NotStarted))
       ELSE IF ~HasTurn(game, username[1])
       THEN Reject("Move", c, username, "not_your_turn",
                   Reply(username[1], NotYourTurn))
       ELSE IF ~mm.ok
       THEN Reject("Move", c, username, "bad_move", <<>>)
       ELSE IF game_is_finished
       THEN \* the finish branch locks games again while process_move still
            \* holds the guard taken at its start: the task never returns
            /\ game.board.ply < MaxPly
            /\ games' = Insert(games, game_id, mm.game)
            /\ games_lock' = Some(c)
            /\ conns' = [conns EXCEPT ![c].reader = "hung"]
            /\ chan' = NoChan
            /\ last' = Step("Move", c, username, "Hung", "finish_branch")
            /\ UNCHANGED <<user_file, registry, finished_games, user_to_game, last_game_id,
                           slow>>
       ELSE /\ game.board.ply < MaxPly
            /\ games' = Insert(games, game_id, mm.game)
            /\ conns' = [conns EXCEPT ![c].reader = "moved"]
            /\ chan' = NoChan
            /\ last' = Step("Move", c, username, "Ok", "moved")
            /\ UNCHANGED <<user_file, registry, finished_games, user_to_game, last_game_id,
                           games_lock, slow>>

(* process_message, Message::Move, after process_move returned Ok:         *)
(* identify_game, then send_game_state under the game guard                *)
MoveBroadcast(c) ==
    LET socket_addr == c
        username == identify_user_by_addr(socket_addr)
        game_id == user_to_game[username[1]]
        sgs == send_game_state(games[game_id])
        back == [conns EXCEPT ![c].reader = "running"]
    IN
    /\ conns[c].reader = "moved"
    /\ IF username[1] \notin DOMAIN user_to_game
       THEN /\ conns' = back
            /\ chan' = NoChan
            /\ last' = Step("Board", c, username, "Err", "not_in_game")
            /\ UNCHANGED <<user_file, registry, gamestate, games_lock, slow>>
       ELSE IF GamesLockStuck
       THEN Hang("Board", c, username)
       ELSE IF game_id \notin DOMAIN games
       THEN /\ conns' = back
            /\ chan' = NoChan
            /\ last' = Step("Board", c, username, "Err", "game_not_found")
            /\ UNCHANGED <<user_file, registry, gamestate, games_lock, slow>>
       ELSE /\ games' = Insert(games, game_id, sgs.game)
            /\ conns' = back
            /\ chan' = Enqueued(sgs.sent)
            /\ last' = Step("Board", c, username, IF sgs.ok THEN "Ok" ELSE "Err",
                            "broadcast")
            /\ UNCHANGED <<user_file, registry, finished_games, user_to_game, last_game_id,
                           games_lock, slow>>

(* ------------------------------ Text ----------------------------------- *)
Texts == {"hi"}

(* identify_opponent, once the game is found *)
identify_opponent(game, username) ==
    IF game.black = Some(username) THEN game.white ELSE game.black

(* process_message, Message::Text *)
SendText(c, text) ==
    LET socket_addr == c
        username == identify_user_by_addr(socket_addr)
        game_id == user_to_game[username[1]]
        opponent == identify_opponent(games[game_id], username[1])
        relay == IF opponent # None /\ opponent[1] \in DOMAIN user_connections
                 THEN TrySends(<<To(user_connections[opponent[1]], Text(text))>>)
                 ELSE [ok |-> TRUE, sent |-> <<>>]
    IN
    /\ Running(c)
    /\ IF username = None
       THEN Reject("Text", c, None, "anonymous", <<>>)
       ELSE IF username[1] \notin DOMAIN user_to_game
       THEN Reject("Text", c, username, "not_in_game", <<>>)
       ELSE IF GamesLockStuck
       THEN Hang("Text", c, username)
       ELSE IF game_id \notin DOMAIN games
       THEN Reject("Text", c, username, "game_not_found", <<>>)
       ELSE /\ chan' = Enqueued(relay.sent)
            /\ last' = Step("Text", c, username, IF relay.ok THEN "Ok" ELSE "Err",
                            "relayed")
            /\ UNCHANGED <<user_file, registry, gamestate, conns, games_lock, slow>>

(* ------------------------------ panics --------------------------------- *)
(* Command::Stats is unimplemented!(), Board / Error / Log from a client   *)
(* hit panic!(): the read task dies inside process_message                 *)
Panicking == {"Stats", "Board", "Error", "Log"}

Panic(c, kind) ==
    /\ Running(c)
    /\ conns' = [conns EXCEPT ![c].reader = "panicked"]
    /\ chan' = NoChan
    /\ last' = Step("panic", c, None, "Panic", "")
    /\ UNCHANGED <<user_file, registry, gamestate, games_lock, slow>>

(* ------------------------------ specification -------------------------- *)
Next ==
    \/ \E a \in Addr : handle_client(a)
    \/ \E c \in Addr : read_task_end(c)
    \/ \E c \in Addr : write_task_end(c)
    \/ \E c \in Addr : cleanup(c)
    \/ \E c \in Addr, n \in Names : LogIn(c, n)
    \/ \E c \in Addr, pick \in {-1} \cup (0..(MaxGames - 1)) : Play(c, pick)
    \/ \E c \in Addr : Concede(c)
    \/ \E c \in Addr, m \in Moves : Move(c, m)
    \/ \E c \in Addr : MoveBroadcast(c)
    \/ \E c \in Addr, t \in Texts : SendText(c, t)
    \/ \E c \in Addr, k \in Panicking : Panic(c, k)

Spec == Init /\ [][Next]_vars

(* The runtime runs every task that is ready: the handler goes on after    *)
(* try_join! returns, a write_task with a message for a closed stream      *)
(* fails its write, a Move whose process_move has returned goes on to its  *)
(* broadcast.  What the peers send, and when they close, is not fair.      *)
FairSpec ==
    /\ Spec
    /\ \A c \in Addr : WF_vars(cleanup(c))
    /\ \A c \in Addr : WF_vars(write_task_end(c))
    /\ \A c \in Addr : WF_vars(MoveBroadcast(c))

(* ------------------------------ framing -------------------------------- *)
(* listen_to_messages: a frame is a 4-byte big-endian length and that many *)
(* bytes.  What follows the header on the stream is a payload that decodes *)
(* to a Message ("message"), one that does not ("garbage"), or fewer bytes *)
(* than announced because the peer closed ("cut").  An empty payload never *)
(* decodes and is never cut.                                               *)
Limit == 10 * 1024 * 1024
Headers == {0, 1, Limit - 1, Limit, Limit + 1, 2147483647}
Frames ==
    {f \in [len : Headers, body : {"message", "garbage", "cut"}] :
        f.len = 0 => f.body = "garbage"}
Streams == {<<f>> : f \in Frames} \cup {<<f, g>> : f \in Frames, g \in Frames}

(* mutated: the length test with >= in place of > *)
TooLarge_inclusive(len) == len >= Limit

(* `if len > 10 * 1024 * 1024` *)
TooLarge(len) == len > Limit

(* the loop of listen_to_messages run on what the peer sends until the     *)
(* call returns, the stream ending where the peer stops: the result, the   *)
(* last header read, the buffers allocated, the payload bytes asked for,   *)
(* the frames dropped, and the frames not read                             *)
RECURSIVE ListenFrom(_, _, _)
ListenFrom(stream, allocated, skipped) ==
    IF stream = <<>>
    THEN [res |-> "Err", path |-> "eof", len |-> 0, fresh |-> FALSE,
          allocated |-> allocated, skipped |-> skipped, rest |-> <<>>]
    ELSE LET len == Head(stream).len
             body == Head(stream).body
         IN IF TooLarge(len)
            THEN [res |-> "Err", path |-> "too_large", len |-> len, fresh |-> FALSE,
                  allocated |-> allocated, skipped |-> skipped, rest |-> Tail(stream)]
            ELSE IF body = "message"
            THEN [res |-> "Ok", path |-> "message", len |-> len, fresh |-> TRUE,
                  allocated |-> allocated \cup {len}, skipped |-> skipped,
                  rest |-> Tail(stream)]
            ELSE IF body = "garbage"
            THEN ListenFrom(Tail(stream), allocated \cup {len}, skipped + 1)
            ELSE [res |-> "Err", path |-> "eof", len |-> len, fresh |-> TRUE,
                  allocated |-> allocated \cup {len}, skipped |-> skipped,
                  rest |-> Tail(stream)]

listen_to_messages(stream) == ListenFrom(stream, {}, 0)

(* listen_to_client_messages, one turn of its loop up to the return of     *)
(* listen_to_messages: Err breaks the loop, Ok hands the message to        *)
(* process_message (the dispatch is the step that follows)                 *)
listen_to_client_messages(c, stream) ==
    LET r == listen_to_messages(stream)
    IN
    /\ Running(c)
    /\ r.rest = <<>>
    /\ conns' = IF r.res = "Err" THEN [conns EXCEPT ![c].reader = "ended"] ELSE conns
    /\ chan' = NoChan
    /\ last' = [op |-> "frame", conn |-> c, name |-> None, res |-> r.res,
                path |-> r.path, len |-> r.len, fresh |-> r.fresh,
                allocated |-> r.allocated, skipped |-> r.skipped]
    /\ UNCHANGED <<user_file, registry, gamestate, games_lock, slow>>

(* the reader of a connection alone: accept, frames, and the LogIn a       *)
(* decoded frame can carry                                                 *)
FrameNext ==
    \/ \E a \in Addr : handle_client(a)
    \/ \E c \in Addr, stream \in Streams : listen_to_client_messages(c, stream)
    \/ \E c \in Addr, n \in Names : LogIn(c, n)

FrameSpec == Init /\ [][FrameNext]_vars

(* ------------------------------ slow clients --------------------------- *)
(* the mutexes of ServerState, one for each registry map, and the mutex    *)
(* every Game is wrapped in                                                *)
AnonMutex == "anon_user_connections"
UsersMutex == "user_connections"
AddrMutex == "addr_to_user"
UserToGameMutex == "user_to_game"
GamesMutex == "games"
GameMutex(game_id) == "game " \o ToString(game_id)
RegistryMutexes == {AnonMutex, UsersMutex, AddrMutex, UserToGameMutex, GamesMutex}

(* mpsc::channel(100): the peer of c has stopped reading, write_task stays *)
(* in write_all and the 100 slots are taken.  Only the channel of a user   *)
(* in a game is sent that many messages (an Error for every further Play,  *)
(* every Text of the opponent): the anon map's Sender is used once         *)
stall(c) ==
    /\ RxOpen(c)
    /\ c \notin stalled
    /\ \E n \in DOMAIN user_connections \cap DOMAIN user_to_game : user_connections[n] = c
    /\ stalled' = stalled \cup {c}
    /\ chan' = NoChan
    /\ last' = Step("stall", c, None, "Ok", "")
    /\ UNCHANGED <<user_file, registry, gamestate, conns, games_lock, held>>

(* Sender::send(..).await on a channel with no free slot does not return:  *)
(* of a run of sends, the ones before the first such send are enqueued     *)
FirstStalled(sent) ==
    IF \E i \in 1..Len(sent) : sent[i].to \in stalled
    THEN CHOOSE i \in 1..Len(sent) :
            /\ sent[i].to \in stalled
            /\ \A j \in 1..(i - 1) : sent[j].to \notin stalled
    ELSE Len(sent) + 1
Waits(sent) == FirstStalled(sent) <= Len(sent)
Delivered(sent) == SubSeq(sent, 1, FirstStalled(sent) - 1)

(* a dispatch that does not return: it waits for a slot ("Blocked") or for *)
(* a mutex ("Hung"), and keeps the guards it has taken                     *)
Wait(op, c, username, res, path, sent, locks) ==
    /\ conns' = [conns EXCEPT ![c].reader = IF res = "Blocked" THEN "blocked" ELSE "hung"]
    /\ held' = held \cup locks
    /\ chan' = Enqueued(sent)
    /\ last' = [op |-> op, conn |-> c, name |-> username, res |-> res, path |-> path,
                locks |-> locks]
    /\ UNCHANGED <<games_lock, stalled>>

(* Command::LogIn with the waits of its lock() and send awaits *)
SlowLogIn(c, username) ==
    LET socket_addr == c
        known == authenticate(user_file, username)
        p == promote(socket_addr, username,
                     IF known THEN WelcomeBack(username) ELSE Welcome(username))
        stored == IF known THEN user_file ELSE register(user_file, username)
    IN
    /\ Running(c)
    /\ ~known => Len(user_file) + Len(username) + 1 <= MaxFileLen
    /\ IF AnonMutex \in held
       THEN /\ user_file' = stored
            /\ Wait("LogIn", c, Some(username), "Hung", AnonMutex, <<>>, {})
            /\ UNCHANGED <<registry, gamestate>>
       ELSE IF socket_addr \in DOMAIN anon_user_connections /\ UsersMutex \in held
       THEN /\ user_file' = stored
            /\ anon_user_connections' = p.anon
            /\ Wait("LogIn", c, Some(username), "Hung", UsersMutex, <<>>, {})
            /\ UNCHANGED <<user_connections, addr_to_user, gamestate>>
       ELSE IF socket_addr \in DOMAIN anon_user_connections /\ AddrMutex \in held
       THEN /\ user_file' = stored
            /\ anon_user_connections' = p.anon
            /\ user_connections' = p.users
            /\ Wait("LogIn", c, Some(username), "Hung", AddrMutex, <<>>, {UsersMutex})
            /\ UNCHANGED <<addr_to_user, gamestate>>
       ELSE IF Waits(p.sent)
       THEN /\ user_file' = stored
            /\ anon_user_connections' = p.anon
            /\ user_connections' = p.users
            /\ addr_to_user' = p.addr_user
            /\ Wait("LogIn", c, Some(username), "Blocked", "greeting", Delivered(p.sent),
                    {UsersMutex, AddrMutex})
            /\ UNCHANGED gamestate
       ELSE LogIn(c, username)

(* the seat the scan of assign_to_game fills *)
Seat(game, username) ==
    IF game.white = None THEN [game EXCEPT !.white = Some(username)]
    ELSE [game EXCEPT !.black = Some(username)]

(* Command::Play with the waits of its lock() and send awaits *)
SlowPlay(c, pick) ==
    LET socket_addr == c
        username == identify_user_by_addr(socket_addr)
        refuse == IF username[1] \in DOMAIN user_connections
                  THEN TrySends(<<To(user_connections[username[1]], AlreadyPlaying)>>).sent
                  ELSE <<>>
        starts == pick # -1 /\ games[pick].white # None
        started == [Seat(games[pick], username[1]) EXCEPT !.status = InProgress]
        st == start_game(Seat(games[pick], username[1]))
        r == assign_to_game(username[1], pick)
    IN
    /\ Running(c)
    /\ IF AddrMutex \in held
       THEN /\ pick = -1
            /\ Wait("Play", c, None, "Hung", AddrMutex, <<>>, {})
            /\ UNCHANGED <<user_file, registry, gamestate>>
       ELSE IF username = None
       THEN IF AnonMutex \in held
            THEN /\ pick = -1
                 /\ Wait("Play", c, None, "Hung", AnonMutex, <<>>, {})
                 /\ UNCHANGED <<user_file, registry, gamestate>>
            ELSE Play(c, pick)
       ELSE IF UserToGameMutex \in held
       THEN /\ pick = -1
            /\ Wait("Play", c, username, "Hung", UserToGameMutex, <<>>, {})
            /\ UNCHANGED <<user_file, registry, gamestate>>
       ELSE IF username[1] \in DOMAIN user_to_game
       THEN IF UsersMutex \in held
            THEN /\ pick = -1
                 /\ Wait("Play", c, username, "Hung", UsersMutex, <<>>, {})
                 /\ UNCHANGED <<user_file, registry, gamestate>>
            ELSE IF Waits(refuse)
            THEN /\ pick = -1
                 /\ Wait("Play", c, username, "Blocked", "already_in_game",
                         Delivered(refuse), {UsersMutex})
                 /\ UNCHANGED <<user_file, registry, gamestate>>
            ELSE Play(c, pick)
       ELSE IF GamesLockStuck
       THEN Play(c, pick)
       ELSE IF GamesMutex \in held
       THEN /\ pick = -1
            /\ Wait("Play", c, username, "Hung", GamesMutex, <<>>, {})
            /\ UNCHANGED <<user_file, registry, gamestate>>
       ELSE IF \E g \in DOMAIN games : GameMutex(g) \in held
       THEN /\ pick = -1
            /\ Wait("Play", c, username, "Hung", "game", <<>>, {GamesMutex})
            /\ UNCHANGED <<user_file, registry, gamestate>>
       ELSE /\ IF OpenGames = {} THEN pick = -1 /\ last_game_id < MaxGames
                                 ELSE pick \in OpenGames
            /\ IF starts /\ UsersMutex \in held
               THEN \* send_game_state waits for user_connections
                    /\ games' = Insert(games, pick, started)
                    /\ Wait("Play", c, username, "Hung", UsersMutex, <<>>,
                            {GamesMutex, GameMutex(pick)})
                    /\ UNCHANGED <<user_file, registry, finished_games, user_to_game,
                                   last_game_id>>
               ELSE IF starts /\ Waits(st.sent)
               THEN \* a send of send_game_state waits for a slot
                    /\ games' = Insert(games, pick,
                                       IF FirstStalled(st.sent) > 3 THEN st.game
                                       ELSE started)
                    /\ Wait("Play", c, username, "Blocked", "start_game",
                            Delivered(st.sent), {GamesMutex, GameMutex(pick), UsersMutex})
                    /\ UNCHANGED <<user_file, registry, finished_games, user_to_game,
                                   last_game_id>>
               ELSE IF r.path # "start_failed" /\ UsersMutex \in held
               THEN \* the lookup of the InGame sender waits for user_connections
                    /\ games' = r.games
                    /\ user_to_game' = r.user_to_game
                    /\ last_game_id' = r.last_game_id
                    /\ Wait("Play", c, username, "Hung", UsersMutex, <<>>, {GamesMutex})
                    /\ UNCHANGED <<user_file, registry, finished_games>>
               ELSE IF r.path # "start_failed" /\ Waits(r.sent)
               THEN \* the InGame send waits for a slot
                    /\ games' = r.games
                    /\ user_to_game' = r.user_to_game
                    /\ last_game_id' = r.last_game_id
                    /\ Wait("Play", c, username, "Blocked", "in_game",
                            Delivered(r.sent), {GamesMutex, UsersMutex})
                    /\ UNCHANGED <<user_file, registry, finished_games>>
               ELSE Play(c, pick)

(* Message::Text with the waits of its lock() and send awaits *)
SlowText(c, text) ==
    LET socket_addr == c
        username == identify_user_by_addr(socket_addr)
        game_id == user_to_game[username[1]]
        opponent == identify_opponent(games[game_id], username[1])
        relay == IF opponent # None /\ opponent[1] \in DOMAIN user_connections
                 THEN TrySends(<<To(user_connections[opponent[1]], Text(text))>>).sent
                 ELSE <<>>
        Stop(res, path, sent, locks) ==
            /\ Wait("Text", c, username, res, path, sent, locks)
            /\ UNCHANGED <<user_file, registry, gamestate>>
    IN
    /\ Running(c)
    /\ IF AddrMutex \in held
       THEN Stop("Hung", AddrMutex, <<>>, {})
       ELSE IF username = None
       THEN SendText(c, text)
       ELSE IF UserToGameMutex \in held
       THEN Stop("Hung", UserToGameMutex, <<>>, {})
       ELSE IF username[1] \notin DOMAIN user_to_game \/ GamesLockStuck
       THEN SendText(c, text)
       ELSE IF GamesMutex \in held
       THEN Stop("Hung", GamesMutex, <<>>, {})
       ELSE IF game_id \notin DOMAIN games
       THEN SendText(c, text)
       ELSE IF GameMutex(game_id) \in held
       THEN Stop("Hung", "game", <<>>, {GamesMutex})
       ELSE IF opponent = None
       THEN SendText(c, text)
       ELSE IF UsersMutex \in held
       THEN Stop("Hung", UsersMutex, <<>>, {})
       ELSE IF Waits(relay)
       THEN Stop("Blocked", "relayed", Delivered(relay), {UsersMutex})
       ELSE SendText(c, text)

(* logging in, pairing and chat with peers that may stop reading *)
SlowNext ==
    \/ \E a \in Addr : handle_client(a)
    \/ \E c \in Addr : stall(c)
    \/ \E c \in Addr, n \in Names : SlowLogIn(c, n)
    \/ \E c \in Addr, pick \in {-1} \cup (0..(MaxGames - 1)) : SlowPlay(c, pick)
    \/ \E c \in Addr, t \in Texts : SlowText(c, t)

SlowSpec == Init /\ [][SlowNext]_vars

(* ------------------------------ claims --------------------------------- *)
Holds(queue, msg) == \E i \in 1..Len(queue) : queue[i] = msg
HoldsType(queue, type) == \E i \in 1..Len(queue) : queue[i].type = type

(* the user behind connection c, and whether there is one *)
Authenticated(c) == identify_user_by_addr(c) # None
UserOf(c) == identify_user_by_addr(c)[1]

(* C1: after a LogIn(n) dispatch that returned Ok on the connection at     *)
(* address a, user_connections maps n to that connection's channel,        *)
(* addr_to_user[a] = n, and a is not a key of anon_user_connections.       *)
C1_LogInPromotes ==
    (last.op = "LogIn" /\ last.res = "Ok") =>
        /\ last.name[1] \in DOMAIN user_connections
        /\ user_connections[last.name[1]] = last.conn
        /\ last.conn \in DOMAIN addr_to_user
        /\ addr_to_user[last.conn] = last.name[1]
        /\ last.conn \notin DOMAIN anon_user_connections

C1_Witness == last.op = "LogIn" /\ last.res = "Ok" /\ last.name = Some(alice)

(* C2: in every state at most one connection whose reader is running is    *)
(* bound to a given username by addr_to_user.                              *)
C2_OneLiveConnectionPerName ==
    \A a, b \in Addr :
        (Running(a) /\ Running(b) /\ Authenticated(a) /\ Authenticated(b)
            /\ UserOf(a) = UserOf(b)) => a = b

(* C3: a LogIn(n) that returns Ok while user_connections maps n to another *)
(* connection's channel enqueues Log("You have been superseded by a new    *)
(* login") on that prior channel.                                          *)
C3_SupersededIsTold ==
    [][(/\ last'.op = "LogIn"
        /\ last'.res = "Ok"
        /\ last'.name[1] \in DOMAIN user_connections
        /\ user_connections[last'.name[1]] # last'.conn)
       => Holds(chan'[user_connections[last'.name[1]]],
                Log("You have been superseded by a new login"))]_vars

(* C4 (I1): every key of user_connections and every value of addr_to_user  *)
(* is a name for which authenticate, run on the user file, returns true.   *)
C4_AuthenticatedNamesExist ==
    /\ \A n \in DOMAIN user_connections : authenticate(user_file, n)
    /\ \A a \in DOMAIN addr_to_user : authenticate(user_file, addr_to_user[a])

(* C5 (I3): a username is a key of user_to_game exactly when some game of  *)
(* status Pending or InProgress seats it as white or black.                *)
C5_UserToGameMatchesSeats ==
    \A u \in Names :
        (u \in DOMAIN user_to_game) <=>
            \E g \in DOMAIN games :
                /\ games[g].status \in {Pending, InProgress}
                /\ (games[g].white = Some(u) \/ games[g].black = Some(u))

(* C6 (I6): a game whose status is Finished or Cancelled keeps its status, *)
(* its board and its side to move in every later step.                     *)
C6_TerminalStaysTerminal ==
    [][\A g \in DOMAIN games :
          games[g].status \in {Finished, Cancelled} =>
              LET after == IF g \in DOMAIN games' THEN games'[g] ELSE finished_games'[g]
              IN /\ g \in DOMAIN games' \cup DOMAIN finished_games'
                 /\ after.status = games[g].status
                 /\ after.board = games[g].board
                 /\ after.current_turn = games[g].current_turn]_vars

(* C7: a Play dispatch fills a seat of an existing game only if that game  *)
(* was Pending with a seat empty; a Finished or Cancelled game gets no new *)
(* player.                                                                 *)
C7_PlaySeatsOnlyInPending ==
    [][\A g \in DOMAIN games :
          (/\ last'.op = "Play"
           /\ g \in DOMAIN games'
           /\ (games'[g].white # games[g].white \/ games'[g].black # games[g].black))
          => (games[g].status = Pending /\ OpenSeat(games[g]))]_vars

(* C8: a Play dispatched for an authenticated user who is not in           *)
(* user_to_game, when no game has an open seat, adds one game under a      *)
(* fresh id, Pending, white = the user, black empty, White to move, maps   *)
(* the user to it, enqueues Log("You're in a game now!") for the user, and *)
(* enqueues no Board anywhere.                                             *)
C8_PlayCreatesPendingGame ==
    [][\A c \in Addr :
          (/\ Running(c)
           /\ Authenticated(c)
           /\ UserOf(c) \notin DOMAIN user_to_game
           /\ OpenGames = {}
           /\ last'.op = "Play"
           /\ last'.conn = c)
          => /\ \E g \in DOMAIN games' \ DOMAIN games :
                   /\ DOMAIN games' = DOMAIN games \cup {g}
                   /\ games'[g].status = Pending
                   /\ games'[g].white = Some(UserOf(c))
                   /\ games'[g].black = None
                   /\ games'[g].current_turn = White
                   /\ UserOf(c) \in DOMAIN user_to_game'
                   /\ user_to_game'[UserOf(c)] = g
             /\ UserOf(c) \in DOMAIN user_connections
             /\ Holds(chan'[user_connections[UserOf(c)]], Log("You're in a game now!"))
             /\ \A ch \in Addr : ~HoldsType(chan'[ch], "Board")]_vars

(* C9: a Play that seats the second player of a Pending game makes the     *)
(* game InProgress, maps both players to it in user_to_game, enqueues a    *)
(* Board with the initial position for both players, and enqueues the      *)
(* "Your turn" Log for the white player and for nobody else.               *)
C9_SecondSeatStartsGame ==
    [][\A c \in Addr : \A g \in DOMAIN games :
          (/\ Running(c)
           /\ Authenticated(c)
           /\ UserOf(c) \notin DOMAIN user_to_game
           /\ last'.op = "Play"
           /\ last'.conn = c
           /\ games[g].status = Pending
           /\ games[g].white # None
           /\ games[g].black = None
           /\ games'[g].black = Some(UserOf(c)))
          => LET white_player == games[g].white[1]
                 turn == Log("Your turn, white player " \o Show(white_player) \o "!")
             IN /\ games'[g].status = InProgress
                /\ white_player \in DOMAIN user_to_game'
                /\ user_to_game'[white_player] = g
                /\ UserOf(c) \in DOMAIN user_to_game'
                /\ user_to_game'[UserOf(c)] = g
                /\ white_player \in DOMAIN user_connections
                /\ UserOf(c) \in DOMAIN user_connections
                /\ Holds(chan'[user_connections[white_player]], BoardMsg(Fen(BoardDefault)))
                /\ Holds(chan'[user_connections[UserOf(c)]], BoardMsg(Fen(BoardDefault)))
                /\ \A ch \in Addr :
                      Holds(chan'[ch], turn) <=> ch = user_connections[white_player]]_vars

(* C10: a Play from an authenticated user who is a key of user_to_game     *)
(* leaves games and user_to_game as they are and enqueues an Error for the *)
(* caller.                                                                 *)
C10_PlayWhileSeatedRejected ==
    [][\A c \in Addr :
          (/\ Running(c)
           /\ Authenticated(c)
           /\ UserOf(c) \in DOMAIN user_to_game
           /\ last'.op = "Play"
           /\ last'.conn = c)
          => /\ games' = games
             /\ user_to_game' = user_to_game
             /\ HoldsType(chan'[c], "Error")]_vars

(* the game user_to_game gives for the user behind connection c, when the  *)
(* user is seated in it                                                    *)
Seated(c) ==
    /\ Authenticated(c)
    /\ UserOf(c) \in DOMAIN user_to_game
    /\ user_to_game[UserOf(c)] \in DOMAIN games
    /\ \/ games[user_to_game[UserOf(c)]].white = Some(UserOf(c))
       \/ games[user_to_game[UserOf(c)]].black = Some(UserOf(c))
GameOf(c) == games[user_to_game[UserOf(c)]]

(* C11: a Move from a seated user whose game has a seat empty, or whose    *)
(* seat colour is not the side to move, changes no game, enqueues an Error *)
(* for the caller ("It's not your turn." in the turn case) and enqueues    *)
(* nothing for anybody else.                                               *)
C11_MoveOutOfTurnRejected ==
    [][\A c \in Addr :
          (/\ Running(c)
           /\ Seated(c)
           /\ (OpenSeat(GameOf(c)) \/ ~HasTurn(GameOf(c), UserOf(c)))
           /\ last'.op = "Move"
           /\ last'.conn = c)
          => /\ games' = games
             /\ HoldsType(chan'[c], "Error")
             /\ ~OpenSeat(GameOf(c)) => Holds(chan'[c], NotYourTurn)
             /\ \A ch \in Addr \ {c} : chan'[ch] = <<>>]_vars

(* connection c belongs to one of the two distinct players of a game that  *)
(* is InProgress and has no result yet                                     *)
InPlay(c) ==
    /\ Seated(c)
    /\ ~OpenSeat(GameOf(c))
    /\ GameOf(c).white # GameOf(c).black
    /\ GameOf(c).status = InProgress
    /\ GameOf(c).result = None

(* the channel user_connections gives for a player of a game *)
ChannelOf(player) == user_connections[player[1]]

(* C12: when the player to move sends a Move that make_move refuses (it    *)
(* does not parse, or is illegal on the board), an Error is enqueued for   *)
(* the mover, nothing is enqueued for anybody else, and no game changes.   *)
C12_BadMoveAnswered ==
    [][\A c \in Addr :
          (/\ Running(c)
           /\ InPlay(c)
           /\ HasTurn(GameOf(c), UserOf(c))
           /\ last'.op = "Move"
           /\ last'.conn = c
           /\ last'.path = "bad_move")
          => /\ games' = games
             /\ HoldsType(chan'[c], "Error")
             /\ \A ch \in Addr \ {c} : chan'[ch] = <<>>]_vars

(* GameResult of a mate delivered by the side that is not to move *)
MateBy(color) == IF color = White THEN "WhiteCheckmates" ELSE "BlackCheckmates"

(* C13: when a legal Move has left the side to move in check with no legal *)
(* move, the end of that Move's dispatch has the game Finished with the    *)
(* mover's mate result, out of games and in finished_games, both players   *)
(* out of user_to_game, and the Board, Log("Check!") and the game-finished *)
(* Log enqueued for both players.                                          *)
C13_MateFinishesGame ==
    [][\A c \in Addr :
          (/\ conns[c].reader = "moved"
           /\ InPlay(c)
           /\ InCheck(GameOf(c).board)
           /\ NoLegalMoves(GameOf(c).board)
           /\ last'.op = "Board"
           /\ last'.conn = c)
          => LET g == user_to_game[UserOf(c)]
                 game == GameOf(c)
                 fin == Log("Game is finished. Result is: "
                            \o DebugResult(Some(MateBy(Not(game.current_turn)))))
             IN /\ g \notin DOMAIN games'
                /\ g \in DOMAIN finished_games'
                /\ finished_games'[g].status = Finished
                /\ finished_games'[g].result = Some(MateBy(Not(game.current_turn)))
                /\ game.white[1] \notin DOMAIN user_to_game'
                /\ game.black[1] \notin DOMAIN user_to_game'
                /\ \A p \in {game.white, game.black} :
                      /\ p[1] \in DOMAIN user_connections
                      /\ Holds(chan'[ChannelOf(p)], BoardMsg(Fen(game.board)))
                      /\ Holds(chan'[ChannelOf(p)], Log("Check!"))
                      /\ Holds(chan'[ChannelOf(p)], fin)]_vars

(* both players of c's game have a channel in user_connections whose       *)
(* write_task is alive                                                     *)
BothOnline(c) ==
    \A p \in {GameOf(c).white, GameOf(c).black} :
        p[1] \in DOMAIN user_connections /\ RxOpen(ChannelOf(p))

(* C14: a Concede by a player of an InProgress game, whatever the board,   *)
(* leaves the game Finished with result WhiteResigns (caller white) or     *)
(* BlackResigns (caller black), both players out of user_to_game, and the  *)
(* game-finished Log with that result enqueued for both players.           *)
C14_ConcedeIsResignation ==
    [][\A c \in Addr :
          (/\ Running(c)
           /\ InPlay(c)
           /\ BothOnline(c)
           /\ last'.op = "Concede"
           /\ last'.conn = c)
          => LET g == user_to_game[UserOf(c)]
                 game == GameOf(c)
                 resigns == IF game.white = Some(UserOf(c))
                            THEN "WhiteResigns" ELSE "BlackResigns"
                 after == IF g \in DOMAIN games' THEN games'[g] ELSE finished_games'[g]
                 fin == Log("Game is finished. Result is: " \o DebugResult(Some(resigns)))
             IN /\ g \in DOMAIN games' \cup DOMAIN finished_games'
                /\ after.status = Finished
                /\ after.result = Some(resigns)
                /\ game.white[1] \notin DOMAIN user_to_game'
                /\ game.black[1] \notin DOMAIN user_to_game'
                /\ \A p \in {game.white, game.black} :
                      Holds(chan'[ChannelOf(p)], fin)]_vars

(* C15: no game of status Finished is a value of games: the dispatch that  *)
(* finishes a game has moved it to finished_games under the same id.       *)
C15_FinishedGamesArchived ==
    \A g \in DOMAIN games : games[g].status # Finished

(* C16 (P6): once the disconnect of connection c has been handled, c is a  *)
(* key of neither anon_user_connections nor addr_to_user, its user (if     *)
(* any) is a key of neither user_connections nor user_to_game, and no      *)
(* Pending game with that user alone is in games.                          *)
C16_CleanupClearsRegistry ==
    [][\A c \in Addr :
          (last'.op = "cleanup" /\ last'.conn = c)
          => /\ c \notin DOMAIN anon_user_connections'
             /\ c \notin DOMAIN addr_to_user'
             /\ Authenticated(c) =>
                   /\ UserOf(c) \notin DOMAIN user_connections'
                   /\ UserOf(c) \notin DOMAIN user_to_game'
                   /\ \A g \in DOMAIN games' :
                         ~(/\ games'[g].status = Pending
                           /\ games'[g].white = Some(UserOf(c))
                           /\ games'[g].black = None)]_vars

(* C17: when the disconnect of a player of an InProgress game is handled,  *)
(* the game becomes Finished with the departing side's Resigns result, the *)
(* remaining player leaves user_to_game and has a Board and the            *)
(* game-finished Log enqueued.                                             *)
C17_DisconnectResigns ==
    [][\A c \in Addr :
          (/\ InPlay(c)
           /\ BothOnline(c)
           /\ last'.op = "cleanup"
           /\ last'.conn = c)
          => LET g == user_to_game[UserOf(c)]
                 game == GameOf(c)
                 resigns == IF game.white = Some(UserOf(c))
                            THEN "WhiteResigns" ELSE "BlackResigns"
                 remaining == IF game.white = Some(UserOf(c))
                              THEN game.black ELSE game.white
                 after == IF g \in DOMAIN games' THEN games'[g] ELSE finished_games'[g]
                 fin == Log("Game is finished. Result is: " \o DebugResult(Some(resigns)))
             IN /\ g \in DOMAIN games' \cup DOMAIN finished_games'
                /\ after.status = Finished
                /\ after.result = Some(resigns)
                /\ remaining[1] \notin DOMAIN user_to_game'
                /\ Holds(chan'[ChannelOf(remaining)], fin)
                /\ HoldsType(chan'[ChannelOf(remaining)], "Board")]_vars

(* C18: once the read task of connection c has ended, its cleanup          *)
(* eventually runs: the address is eventually absent from                  *)
(* anon_user_connections and the user's name, if any, from                 *)
(* user_connections, even if nothing more is sent to c.                    *)
C18_ReaderEndLeadsToCleanup ==
    \A c \in Addr :
        (conns[c].reader = "ended")
            ~> (/\ c \notin DOMAIN anon_user_connections
                /\ Authenticated(c) => UserOf(c) \notin DOMAIN user_connections)

(* the turn Log send_game_state makes for a game *)
TurnLog(game) ==
    IF game.current_turn = White
    THEN Log("Your turn, white player " \o Show(game.white[1]) \o "!")
    ELSE Log("Your turn, black player " \o Show(game.black[1]) \o "!")

(* C19: from the step that applies a legal Move of connection c to the     *)
(* step that enqueues its Board, no step of another task changes that      *)
(* game; the broadcast enqueues the Board of the game for both players and *)
(* the "Your turn" Log for exactly one of them.                            *)
C19_MoveAndBroadcastAtomic ==
    [][\A c \in Addr :
          (/\ conns[c].reader = "moved"
           /\ InPlay(c)
           /\ BothOnline(c))
          => /\ conns'[c].reader = "moved" =>
                   /\ user_to_game[UserOf(c)] \in DOMAIN games'
                   /\ games'[user_to_game[UserOf(c)]] = GameOf(c)
             /\ (last'.op = "Board" /\ last'.conn = c) =>
                   /\ \A p \in {GameOf(c).white, GameOf(c).black} :
                         Holds(chan'[ChannelOf(p)], BoardMsg(Fen(GameOf(c).board)))
                   /\ Cardinality({ch \in Addr : Holds(chan'[ch], TurnLog(GameOf(c)))}) = 1
                   /\ Holds(chan'[ChannelOf(IF GameOf(c).current_turn = White
                                            THEN GameOf(c).white ELSE GameOf(c).black)],
                            TurnLog(GameOf(c)))]_vars

(* C20: no task waits for ever on a lock: the games mutex is never held by *)
(* a task that waits for it, and no read task hangs in a dispatch.         *)
C20_NoLockDeadlock ==
    /\ games_lock = None
    /\ \A c \in Addr : conns[c].reader # "hung"

(* the Logs a broadcast can carry *)
Results == {"WhiteResigns", "BlackResigns", "WhiteCheckmates", "BlackCheckmates"}
TurnLogs ==
    {Log("Your turn, white player " \o Show(n) \o "!") : n \in Names}
        \cup {Log("Your turn, black player " \o Show(n) \o "!") : n \in Names}
FinishLogs == {Log("Game is finished. Result is: " \o DebugResult(Some(r))) : r \in Results}

(* the place of a message in one broadcast; what is no part of a broadcast *)
(* comes last                                                              *)
Rank(msg) ==
    IF msg.type = "Board" THEN 1
    ELSE IF msg \in TurnLogs THEN 2
    ELSE IF msg = Log("Check!") THEN 3
    ELSE IF msg = Log("Mate!") THEN 4
    ELSE IF msg \in FinishLogs THEN 5
    ELSE 6

(* C22: what one step enqueues on a channel is in the order Board, turn    *)
(* Log, optional Log("Check!"), optional game-finished Log, and belongs to *)
(* one broadcast: all its Boards carry the same position and all its       *)
(* game-finished Logs the same result.                                     *)
C22_BroadcastOrder ==
    \A c \in Addr :
        \A i, j \in 1..Len(chan[c]) :
            i < j =>
                /\ Rank(chan[c][i]) <= Rank(chan[c][j])
                /\ (Rank(chan[c][i]) = Rank(chan[c][j]) /\ Rank(chan[c][i]) < 6)
                      => chan[c][i] = chan[c][j]

C22_Witness ==
    \E c \in Addr :
        /\ Len(chan[c]) >= 3
        /\ chan[c][1].type = "Board"
        /\ chan[c][2] \in TurnLogs
        /\ chan[c][3] = Log("Check!")

(* C23: a Play, Move, Concede or Text from an anonymous connection is      *)
(* answered with an Error on that connection, and the connection stays a   *)
(* key of anon_user_connections.                                           *)
C23_AnonymousKeptAndTold ==
    [][\A c \in Addr :
          (/\ Running(c)
           /\ ~Authenticated(c)
           /\ c \in DOMAIN anon_user_connections
           /\ last'.op \in {"Play", "Move", "Concede", "Text"}
           /\ last'.conn = c)
          => /\ HoldsType(chan'[c], "Error")
             /\ c \in DOMAIN anon_user_connections']_vars

(* C24: a LogIn from a connection that is already authenticated changes    *)
(* nothing: user_connections, addr_to_user, anon_user_connections and the  *)
(* user file are after the dispatch what they were before, whether the     *)
(* name is registered or not.                                              *)
C24_SecondLogInChangesNothing ==
    [][\A c \in Addr :
          (/\ Running(c)
           /\ Authenticated(c)
           /\ c \notin DOMAIN anon_user_connections
           /\ last'.op = "LogIn"
           /\ last'.conn = c)
          => /\ user_connections' = user_connections
             /\ addr_to_user' = addr_to_user
             /\ anon_user_connections' = anon_user_connections
             /\ user_file' = user_file]_vars

(* the opponent of the user behind connection c in its game *)
OpponentOf(c) == identify_opponent(GameOf(c), UserOf(c))

(* C25: a Text(s) from a player of a game in play, whose opponent's        *)
(* write_task has not ended, enqueues Text(s), and nothing else, on the    *)
(* opponent's channel, nothing on any other channel, and changes neither   *)
(* the games nor the registry.                                             *)
C25_TextRelayedVerbatim ==
    [][\A c \in Addr :
          (/\ Running(c)
           /\ InPlay(c)
           /\ OpponentOf(c)[1] \in DOMAIN user_connections
                 => RxOpen(ChannelOf(OpponentOf(c)))
           /\ last'.op = "Text"
           /\ last'.conn = c)
          => /\ OpponentOf(c)[1] \in DOMAIN user_connections
             /\ \E t \in Texts : chan'[ChannelOf(OpponentOf(c))] = <<Text(t)>>
             /\ \A ch \in Addr \ {ChannelOf(OpponentOf(c))} : chan'[ch] = <<>>
             /\ UNCHANGED <<registry, gamestate>>]_vars

(* C26: no message of a client makes a server task crash: no read task     *)
(* ever panics.                                                            *)
C26_NoTaskPanics ==
    \A c \in Addr : conns[c].reader # "panicked"

(* a connection whose handler has not returned and whose read task has not *)
(* ended                                                                   *)
Live(c) == conns[c].reader \in {"running", "moved", "hung", "blocked"}

(* C29: every live connection is either anonymous (a key of                *)
(* anon_user_connections, not of addr_to_user) or authenticated (a key of  *)
(* addr_to_user, not of anon_user_connections), never neither and never    *)
(* both.                                                                   *)
C29_AnonymousOrAuthenticated ==
    \A c \in Addr :
        Live(c) => (c \in DOMAIN anon_user_connections) # (c \in DOMAIN addr_to_user)

(* one seat of the game is filled and the other is empty *)
OneSeat(game) == (game.white = None) # (game.black = None)

(* C30 (I4): every Pending game has exactly one seat filled and every      *)
(* InProgress game has both.                                               *)
C30_SeatsMatchStatus ==
    \A g \in DOMAIN games :
        /\ games[g].status = Pending => OneSeat(games[g])
        /\ games[g].status = InProgress => ~OpenSeat(games[g])

C30_Witness ==
    /\ last.op = "Play"
    /\ last.path = "started"
    /\ \E g \in DOMAIN games : games[g].status = InProgress /\ ~OpenSeat(games[g])

(* C27: a header N above 10 MiB makes the read fail and the reader end     *)
(* with no buffer of N bytes allocated and no payload byte asked for; a    *)
(* header N of at most 10 MiB, 10 MiB itself included, is not refused for  *)
(* its length.                                                             *)
C27_LengthLimit ==
    last.op = "frame" =>
        /\ last.len > Limit =>
              /\ last.res = "Err"
              /\ last.path = "too_large"
              /\ conns[last.conn].reader = "ended"
              /\ last.len \notin last.allocated
              /\ ~last.fresh
        /\ last.len <= Limit => last.path # "too_large"
        /\ \A n \in last.allocated : n <= Limit

C27_Witness ==
    /\ last.op = "frame"
    /\ last.len = Limit
    /\ last.res = "Ok"
    /\ Limit \in last.allocated

(* C28: when a complete frame's payload does not decode, the reader of the *)
(* connection ends: the call does not go on to return a later frame for    *)
(* dispatch.                                                               *)
C28_DecodeFailureEndsConnection ==
    (last.op = "frame" /\ last.skipped > 0) =>
        /\ last.res = "Err"
        /\ conns[last.conn].reader = "ended"

(* the user behind connection c sits across a user whose channel is        *)
(* stalled                                                                 *)
FacesStalled(c) ==
    /\ Authenticated(c)
    /\ Seated(c)
    /\ OpponentOf(c) # None
    /\ OpponentOf(c)[1] \in DOMAIN user_connections
    /\ user_connections[OpponentOf(c)[1]] \in stalled

(* C21: no dispatch waits for a slot of a full channel while it holds the  *)
(* mutex of a registry map, and with a client's channel full and not       *)
(* drained no LogIn, Play or Text dispatch waits for a mutex unless its    *)
(* user is that client's opponent.                                         *)
C21_SendsOutsideLocks ==
    /\ last.res = "Blocked" => last.locks \cap RegistryMutexes = {}
    /\ (last.res = "Hung" /\ last.op \in {"LogIn", "Play", "Text"}) =>
           FacesStalled(last.conn)

(* the steps of process_move that applied the move *)
Applied(step) == step.op = "Move" /\ step.path \in {"moved", "finish_branch"}

(* C31 (I5): a game enters the map with White to move; a Move that is      *)
(* applied flips current_turn of its game once and advances the board by   *)
(* one half-move, every other step leaves the current_turn of every game   *)
(* as it was; so current_turn is the side to move of the board.            *)
C31_TurnFollowsBoard ==
    [][/\ \A g \in DOMAIN games' :
             games'[g].current_turn = SideToMove(games'[g].board)
       /\ \A g \in DOMAIN games' \ DOMAIN games :
             games'[g].current_turn = White /\ games'[g].board = BoardDefault
       /\ DOMAIN games \subseteq DOMAIN games'
       /\ IF Applied(last')
          THEN \E g \in DOMAIN games :
                  /\ games'[g].current_turn = Not(games[g].current_turn)
                  /\ games'[g].board.ply = games[g].board.ply + 1
                  /\ \A h \in DOMAIN games \ {g} : games'[h] = games[h]
          ELSE \A g \in DOMAIN games :
                  /\ games'[g].current_turn = games[g].current_turn
                  /\ games'[g].board = games[g].board]_vars

C31_Witness ==
    /\ last.op = "Move"
    /\ last.path = "moved"
    /\ \E g \in DOMAIN games :
          games[g].board.ply = 1 /\ games[g].current_turn = Black

(* C32: no game has one user in both of its seats.                         *)
C32_DistinctSeats ==
    \A g \in DOMAIN games :
        games[g].white # None => games[g].white # games[g].black

(* C33: when the disconnect of connection c, logged in as n, is handled    *)
(* after a live connection b has logged in as n, user_connections still    *)
(* maps n to the channel of b.                                             *)
C33_CleanupSparesSuccessor ==
    [][\A c, b \in Addr :
          (/\ last'.op = "cleanup"
           /\ last'.conn = c
           /\ b # c
           /\ Running(b)
           /\ Authenticated(c)
           /\ Authenticated(b)
           /\ UserOf(b) = UserOf(c)
           /\ UserOf(c) \in DOMAIN user_connections
           /\ user_connections[UserOf(c)] = b)
          => /\ UserOf(c) \in DOMAIN user_connections'
             /\ user_connections'[UserOf(c)] = b]_vars

(* C34: a connection that has not logged in (its Sender is still in        *)
(* anon_user_connections) has no name: identify_user_by_addr gives None    *)
(* for its address, and its Play, Move, Concede and Text take the          *)
(* anonymous branch.                                                       *)
C34_NoNameBeforeLogIn ==
    /\ \A c \in Addr :
          (Running(c) /\ c \in DOMAIN anon_user_connections)
              => identify_user_by_addr(c) = None
    /\ (/\ last.op \in {"Play", "Move", "Concede", "Text"}
        /\ last.conn \in DOMAIN anon_user_connections)
           => last.name = None

(* the seats of game g that hold user u *)
SeatsOf(gs, g, u) ==
    IF g \notin DOMAIN gs THEN {}
    ELSE {seat \in {"white", "black"} :
             (seat = "white" /\ gs[g].white = Some(u))
             \/ (seat = "black" /\ gs[g].black = Some(u))}

(* C35: a Play of a logged-in user that goes into assign_to_game and       *)
(* returns Err has filled no seat, added no game and changed no game's     *)
(* status; and a seat that a Play has filled for a user is in the game     *)
(* user_to_game gives for that user.                                       *)
C35_PlayAllOrNothing ==
    [][\A c \in Addr :
          (/\ Running(c)
           /\ Authenticated(c)
           /\ UserOf(c) \in DOMAIN user_connections
           /\ user_connections[UserOf(c)] = c
           /\ UserOf(c) \notin DOMAIN user_to_game
           /\ last'.op = "Play"
           /\ last'.conn = c)
          => /\ last'.res = "Err" =>
                   /\ DOMAIN games' = DOMAIN games
                   /\ \A g \in DOMAIN games :
                         /\ games'[g].white = games[g].white
                         /\ games'[g].black = games[g].black
                         /\ games'[g].status = games[g].status
             /\ \A g \in DOMAIN games' :
                   SeatsOf(games', g, UserOf(c)) # SeatsOf(games, g, UserOf(c)) =>
                       /\ UserOf(c) \in DOMAIN user_to_game'
                       /\ user_to_game'[UserOf(c)] = g]_vars

====
